---- MODULE Spec2Model ----
(***************************************************************************)
(* Asset-definition reconciliation (core/src/handlers/asset-definitions.ts) *)
(*                                                                         *)
(* handleCreateAssetDefinitionRequest and handleAssetDefinitionCreatedEvent *)
(* are async functions.  Every `await` is a suspension point at which other *)
(* requests and event handlers run, so each handler is a process whose      *)
(* steps are the code between two awaits: the awaited collaborator call     *)
(* takes effect and the handler runs on to the next await.  The registry    *)
(* (clients/database), the content store (clients/ipfs), the ledger gateway *)
(* (clients/api-gateway) and lib/utils are collaborators of the handlers.   *)
(***************************************************************************)
EXTENDS Integers, Sequences, FiniteSets, TLC

(* ------------------------------ bounds -------------------------------- *)
\* creation requests made (each gets one task slot)
MaxRequests == 2
\* confirmation-event deliveries (each gets one task slot)
MaxDeliveries == 2
\* submissions made to the ledger by other parties
MaxRemote == 1

(* ------------------------------ values -------------------------------- *)
NameSeq == <<"widget", "gadget">>
Names == {NameSeq[i] : i \in 1..Len(NameSeq)}
NameIdx(n) == CHOOSE i \in 1..Len(NameSeq) : NameSeq[i] = n

\* JavaScript `undefined`, per field type
Undefined == "undefined"
Unset == 0
Absent == <<"undefined">>

\* schema documents, by what ajv.validateSchema says of them
DescriptionSchemas == {"undefined", "invalid"}
ContentSchemas == {"valid", "invalid"}
\* index specifications, by what ajv.validate(indexSchema, .) says of them
IndexDocs == {Absent, <<"owner">>, <<"bad-shape">>}
IndexSchemaOk(ix) == ix # <<"bad-shape">>

\* registered members and the participant lists a request may carry
RegisteredMembers == {"m1"}
ParticipantLists == {Absent, <<>>, <<"m1">>, <<"m1", "x9">>}

LocalAuthor == "A"
RemoteAuthor == "B"

\* identifiers: uuidV4 yields a fresh one per request; one more is only
\* ever used by definitions created elsewhere
ForeignId == MaxRequests + 1
Ids == 1..ForeignId

Requests == 1..MaxRequests
Handlers == 1..MaxDeliveries

(* ------------------------- lib/utils, clients/ipfs --------------------- *)
\* The content store addresses a blob by the multihash of its bytes: the
\* two-byte prefix (sha2-256, 32 bytes) followed by the digest.  The ledger
\* carries the bare digest.
IndexIdx(ix) == IF ix = Absent THEN 0 ELSE 1
\* sha-256 of the JSON text of a definition: distinct texts, distinct digests
ContentDigest(p) ==
    ((p.assetDefinitionID * Len(NameSeq) + (NameIdx(p.name) - 1)) * 2
        + IndexIdx(p.indexes)) * 2 + (IF p.wellFormed THEN 1 ELSE 0) + 1
uploadString(p) == <<18, 32, ContentDigest(p)>>
ipfsHashToSha256(cid) == cid[3]
sha256ToIPFSHash(sha) == <<18, 32, sha>>
\* downloadJSON: the blobs of the store that have this address
downloadJSON(store, cid) == {p \in store : uploadString(p) = cid}

\* the validation left out
ValidAssetDefinition_Skipped(p) == TRUE
\* ajv.validate(assetDefinitionSchema, .)
ValidAssetDefinition(p) == p.wellFormed

(* --------------------------- clients/database -------------------------- *)
RecordFields ==
    {"name", "author", "assetDefinitionHash", "indexes", "submitted", "receipt",
     "participants", "timestamp", "blockNumber", "transactionHash", "conflict"}
NoRecord ==
    [name |-> Undefined, author |-> Undefined, assetDefinitionHash |-> Unset,
     indexes |-> Absent, submitted |-> Unset, receipt |-> Unset,
     participants |-> Absent, timestamp |-> Unset, blockNumber |-> Unset,
     transactionHash |-> Unset, conflict |-> FALSE, stored |-> FALSE]

Stored(reg) == {i \in Ids : reg[i].stored}
retrieveAssetDefinitionByID(reg, id) == reg[id]
\* the stored records a lookup by name may return; empty means null
retrieveAssetDefinitionByName(reg, name) ==
    {i \in Stored(reg) : reg[i].name = name}
\* upsert by identifier: the fields of doc are written, the others are
\* kept, and the record is inserted when it is missing
upsertAssetDefinition(reg, id, doc) ==
    [reg EXCEPT ![id] =
        [f \in RecordFields \cup {"stored"} |->
            IF f = "stored" THEN TRUE
            ELSE IF f \in DOMAIN doc THEN doc[f] ELSE reg[id][f]]]
\* the record of the identifier gets the conflict marker and the timestamp
markAssetDefinitionAsConflict(reg, id, ts) ==
    upsertAssetDefinition(reg, id, [timestamp |-> ts, conflict |-> TRUE])
retrieveMemberByAddress(address) == address \in RegisteredMembers
\* createCollection(name, indexes): a no-op when the collection exists
createCollection(cols, id, ixs) ==
    IF \E c \in cols : c.name = id THEN cols
    ELSE cols \cup {[name |-> id, indexes |-> ixs]}

(* lifecycle state of a record, derived from its fields *)
IsConfirmed(rec) == rec.stored /\ rec.transactionHash # Unset
IsConflicted(rec) == rec.stored /\ rec.conflict
IsPending(rec) ==
    rec.stored /\ rec.submitted # Unset /\ rec.transactionHash = Unset /\ ~rec.conflict

(* ------------------------------- state --------------------------------- *)
VARIABLES
    protocol,       \* config.protocol
    registry,       \* asset-definitions collection: identifier -> record
    collections,    \* the asset-instance collections and their indexes
    ipfs,           \* content store: the definitions uploaded
    ledger,         \* AssetDefinitionCreated events on the ledger
    req,            \* handleCreateAssetDefinitionRequest invocations
    ev,             \* handleAssetDefinitionCreatedEvent invocations
    confirmWrites   \* per identifier, the upserts applied that set transactionHash

vars == <<protocol, registry, collections, ipfs, ledger, req, ev, confirmWrites>>

NoPayload ==
    [assetDefinitionID |-> Unset, name |-> Undefined, indexes |-> Absent,
     wellFormed |-> FALSE]
NoEvent ==
    [assetDefinitionHash |-> Unset, author |-> Undefined, timestamp |-> Unset,
     blockNumber |-> Unset, transactionHash |-> Unset]
IdleRequest ==
    [pc |-> "idle", name |-> Undefined, descriptionSchema |-> "undefined",
     contentSchema |-> "undefined", indexes |-> Absent, participants |-> Absent,
     sync |-> FALSE, assetDefinitionID |-> Unset, assetDefinitionHash |-> Unset,
     submitted |-> Unset, receipt |-> Unset, err |-> "none", effects |-> {}]
\* upsert: the state of the upsert the handler issues and does not await;
\* redelivery: the event had been handled to the end when this delivery came
IdleHandler ==
    [pc |-> "idle", event |-> NoEvent, assetDefinition |-> NoPayload, err |-> "none",
     upsert |-> "none", redelivery |-> FALSE]

Start ==
    /\ registry = [i \in Ids |-> NoRecord]
    /\ collections = {}
    /\ ipfs = {}
    /\ ledger = {}
    /\ req = [r \in Requests |-> IdleRequest]
    /\ ev = [h \in Handlers |-> IdleHandler]
    /\ confirmWrites = [i \in Ids |-> 0]

\* a deployment on a ledger without explicit participants
Init == protocol = "ethereum" /\ Start
\* a deployment on either kind of ledger
InitAnyProtocol == protocol \in {"ethereum", "corda"} /\ Start

\* the event of the n-th submission: the ledger gives each its own
\* transaction, block and time
Mine(sha, author, n) ==
    [assetDefinitionHash |-> sha, author |-> author, timestamp |-> n,
     blockNumber |-> n, transactionHash |-> n]
\* uuidV4(): an identifier no request has been given
uuidV4 == 1 + Cardinality({r \in Requests : req[r].assetDefinitionID # Unset})

(* ----------------- handleCreateAssetDefinitionRequest ------------------ *)
PreconditionErrors ==
    {"InvalidDescriptionSchema", "InvalidContentSchema", "InvalidIndexes",
     "NameConflict", "UnknownParticipant", "MissingParticipants"}

\* the name looked up ahead of the schema checks
RequestPrecondition_NameFirst(descriptionSchema, contentSchema, indexes, nameTaken, participants) ==
    IF nameTaken THEN "NameConflict"
    ELSE IF descriptionSchema = "invalid" THEN "InvalidDescriptionSchema"
    ELSE IF contentSchema = "invalid" THEN "InvalidContentSchema"
    ELSE IF indexes # Absent /\ ~IndexSchemaOk(indexes) THEN "InvalidIndexes"
    ELSE IF protocol = "corda"
        THEN IF participants # Absent
             THEN IF \E k \in 1..Len(participants) :
                         ~retrieveMemberByAddress(participants[k])
                  THEN "UnknownParticipant" ELSE "none"
             ELSE "MissingParticipants"
    ELSE "none"

\* lines 42-66: the first failing check decides; `if(participants)` is true
\* of every array, the empty one included
RequestPrecondition(descriptionSchema, contentSchema, indexes, nameTaken, participants) ==
    IF descriptionSchema = "invalid" THEN "InvalidDescriptionSchema"
    ELSE IF contentSchema = "invalid" THEN "InvalidContentSchema"
    ELSE IF indexes # Absent /\ ~IndexSchemaOk(indexes) THEN "InvalidIndexes"
    ELSE IF nameTaken THEN "NameConflict"
    ELSE IF protocol = "corda"
        THEN IF participants # Absent
             THEN IF \E k \in 1..Len(participants) :
                         ~retrieveMemberByAddress(participants[k])
                  THEN "UnknownParticipant" ELSE "none"
             ELSE "MissingParticipants"
    ELSE "none"

\* the calls a client can make
Calls ==
    [name : Names, descriptionSchema : DescriptionSchemas,
     contentSchema : ContentSchemas, indexes : IndexDocs, participants : ParticipantLists, sync : BOOLEAN]
\* the calls that differ in what the handlers do after the checks
PlainCalls ==
    [name : Names, descriptionSchema : {"undefined"}, contentSchema : {"valid"},
     indexes : {<<"owner">>}, participants : {<<"m1">>}, sync : {FALSE}]

\* the content uploaded ahead of the checks
CreateRequestValidate_UploadsFirst(r, c) ==
    /\ req[r].pc = "idle"
    /\ \A q \in Requests : q < r => req[q].pc # "idle"
    /\ ipfs' = ipfs \cup {[assetDefinitionID |-> uuidV4, name |-> c.name,
                            indexes |-> c.indexes, wellFormed |-> TRUE]}
    /\ LET nameTaken == retrieveAssetDefinitionByName(registry, c.name) # {}
           err == RequestPrecondition(c.descriptionSchema, c.contentSchema,
                                      c.indexes, nameTaken, c.participants)
           call == [IdleRequest EXCEPT !.name = c.name,
                       !.descriptionSchema = c.descriptionSchema,
                       !.contentSchema = c.contentSchema, !.indexes = c.indexes,
                       !.participants = c.participants, !.sync = c.sync]
       IN req' = [req EXCEPT ![r] =
                    IF err # "none"
                    THEN [call EXCEPT !.pc = "failed", !.err = err]
                    ELSE [call EXCEPT !.pc = "upload", !.assetDefinitionID = uuidV4,
                                      !.submitted = r]]
    /\ UNCHANGED <<protocol, registry, collections, ledger, ev, confirmWrites>>

\* the name looked up among the Confirmed records only
CreateRequestValidate_ConfirmedNamesOnly(r, c) ==
    /\ req[r].pc = "idle"
    /\ \A q \in Requests : q < r => req[q].pc # "idle"
    /\ LET nameTaken == \E i \in retrieveAssetDefinitionByName(registry, c.name) :
                            IsConfirmed(registry[i])
           err == RequestPrecondition(c.descriptionSchema, c.contentSchema,
                                      c.indexes, nameTaken, c.participants)
           call == [IdleRequest EXCEPT !.name = c.name,
                       !.descriptionSchema = c.descriptionSchema,
                       !.contentSchema = c.contentSchema, !.indexes = c.indexes,
                       !.participants = c.participants, !.sync = c.sync]
       IN req' = [req EXCEPT ![r] =
                    IF err # "none"
                    THEN [call EXCEPT !.pc = "failed", !.err = err]
                    ELSE [call EXCEPT !.pc = "upload", !.assetDefinitionID = uuidV4,
                                      !.submitted = r]]
    /\ UNCHANGED <<protocol, registry, collections, ipfs, ledger, ev, confirmWrites>>

\* lines 40-81: the r-th call c, its checks, the identifier and the timestamp
\* (utils.getTimestamp at the r-th call reads r)
CreateRequestValidate(r, c) ==
    /\ req[r].pc = "idle"
    /\ \A q \in Requests : q < r => req[q].pc # "idle"
    /\ LET nameTaken == retrieveAssetDefinitionByName(registry, c.name) # {}
           err == RequestPrecondition(c.descriptionSchema, c.contentSchema,
                                      c.indexes, nameTaken, c.participants)
           call == [IdleRequest EXCEPT !.name = c.name,
                       !.descriptionSchema = c.descriptionSchema,
                       !.contentSchema = c.contentSchema, !.indexes = c.indexes,
                       !.participants = c.participants, !.sync = c.sync]
       IN req' = [req EXCEPT ![r] =
                    IF err # "none"
                    THEN [call EXCEPT !.pc = "failed", !.err = err]
                    ELSE [call EXCEPT !.pc = "upload", !.assetDefinitionID = uuidV4,
                                      !.submitted = r]]
    /\ UNCHANGED <<protocol, registry, collections, ipfs, ledger, ev, confirmWrites>>

\* lines 72-80: the content uploaded
RequestPayload(q) ==
    [assetDefinitionID |-> q.assetDefinitionID, name |-> q.name,
     indexes |-> q.indexes, wellFormed |-> TRUE]

\* line 82: ipfs.uploadString, then the digest
CreateRequestUpload(r) ==
    /\ req[r].pc = "upload"
    /\ \/ /\ ipfs' = ipfs \cup {RequestPayload(req[r])}
          /\ req' = [req EXCEPT ![r].pc = "submit",
                        ![r].assetDefinitionHash =
                            ipfsHashToSha256(uploadString(RequestPayload(req[r]))),
                        ![r].effects = @ \cup {"upload"}]
       \/ /\ req' = [req EXCEPT ![r].pc = "failed", ![r].err = "UploadFailed"]
          /\ UNCHANGED ipfs
    /\ UNCHANGED <<protocol, registry, collections, ledger, ev, confirmWrites>>

\* the identifier of the answer kept as receipt whatever the type of the answer
CreateRequestSubmit_AlwaysReceipt(r) ==
    /\ req[r].pc = "submit"
    /\ \/ /\ ledger' = ledger \cup {Mine(req[r].assetDefinitionHash, LocalAuthor, r)}
          /\ req' = [req EXCEPT ![r].pc = "persist",
                        ![r].receipt = r,
                        ![r].effects = @ \cup {"submit"}]
       \/ /\ req' = [req EXCEPT ![r].pc = "failed", ![r].err = "SubmitFailed"]
          /\ UNCHANGED ledger
    /\ UNCHANGED <<protocol, registry, collections, ipfs, ev, confirmWrites>>

\* lines 83-84: apiGateway.createAssetDefinition; an asynchronous answer
\* carries the receipt
CreateRequestSubmit(r) ==
    /\ req[r].pc = "submit"
    /\ \/ /\ ledger' = ledger \cup {Mine(req[r].assetDefinitionHash, LocalAuthor, r)}
          /\ req' = [req EXCEPT ![r].pc = "persist",
                        ![r].receipt = IF req[r].sync THEN Unset ELSE r,
                        ![r].effects = @ \cup {"submit"}]
       \/ /\ req' = [req EXCEPT ![r].pc = "failed", ![r].err = "SubmitFailed"]
          /\ UNCHANGED ledger
    /\ UNCHANGED <<protocol, registry, collections, ipfs, ev, confirmWrites>>

\* lines 85-100: the record persisted (the fields the handlers only pass
\* on, the schemas and the two content flags, are left out of the model)
RequestRecord(q) ==
    LET doc == [name |-> q.name, author |-> LocalAuthor,
                assetDefinitionHash |-> q.assetDefinitionHash,
                indexes |-> q.indexes, submitted |-> q.submitted,
                receipt |-> q.receipt]
    IN IF protocol = "corda"
       THEN [f \in DOMAIN doc \cup {"participants"} |->
                IF f = "participants" THEN q.participants ELSE doc[f]]
       ELSE doc

\* the record written, then the failure
CreateRequestPersist_FailsAfterWrite(r) ==
    /\ req[r].pc = "persist"
    /\ registry' = upsertAssetDefinition(registry, req[r].assetDefinitionID,
                                         RequestRecord(req[r]))
    /\ \/ req' = [req EXCEPT ![r].pc = "done", ![r].effects = @ \cup {"persist"}]
       \/ req' = [req EXCEPT ![r].pc = "failed", ![r].err = "PersistFailed"]
    /\ UNCHANGED <<protocol, collections, ipfs, ledger, ev, confirmWrites>>

\* lines 101-102: database.upsertAssetDefinition, then the return
CreateRequestPersist(r) ==
    /\ req[r].pc = "persist"
    /\ \/ /\ registry' = upsertAssetDefinition(registry, req[r].assetDefinitionID,
                                               RequestRecord(req[r]))
          /\ req' = [req EXCEPT ![r].pc = "done", ![r].effects = @ \cup {"persist"}]
       \/ /\ req' = [req EXCEPT ![r].pc = "failed", ![r].err = "PersistFailed"]
          /\ UNCHANGED registry
    /\ UNCHANGED <<protocol, collections, ipfs, ledger, ev, confirmWrites>>

(* ------------------- handleAssetDefinitionCreatedEvent ----------------- *)
\* the document of the upsert without the block reference
EventRecord_NoBlock(p, e) ==
    [name |-> p.name, indexes |-> p.indexes, author |-> e.author,
     assetDefinitionHash |-> e.assetDefinitionHash, timestamp |-> e.timestamp,
     transactionHash |-> e.transactionHash]

\* lines 126-133: the document of the upsert
EventRecord(p, e) ==
    [name |-> p.name, indexes |-> p.indexes, author |-> e.author,
     assetDefinitionHash |-> e.assetDefinitionHash, timestamp |-> e.timestamp,
     blockNumber |-> e.blockNumber, transactionHash |-> e.transactionHash]

\* the indexes of the instance collection without the unique one
CollectionIndexes_DeclaredOnly(p) ==
    IF p.indexes # Absent THEN p.indexes ELSE <<>>

\* lines 135-139: the indexes of the instance collection
CollectionIndexes(p) ==
    <<"assetInstanceID">> \o (IF p.indexes # Absent THEN p.indexes ELSE <<>>)

\* lines 126-140: the upsert is issued and not awaited, createCollection is
\* issued after it and awaited
Finalize(h) ==
    ev' = [ev EXCEPT ![h].pc = "createCollection", ![h].upsert = "issued"]

Finished(g) == ev[g].pc = "done" /\ ev[g].upsert = "applied"
Settled(g) == ev[g].pc \in {"idle", "done", "failed"} /\ ev[g].upsert # "issued"
\* no request and no handler is under way
Quiet ==
    /\ \A r \in Requests : req[r].pc \in {"idle", "done", "failed"}
    /\ \A g \in Handlers : Settled(g)

\* lines 105-109: an event is delivered, its content fetched and validated
EventDownload(h) ==
    /\ ev[h].pc = "idle"
    /\ \A g \in Handlers : g < h => ev[g].pc # "idle"
    /\ \E e \in ledger :
        LET again == \E g \in Handlers : Finished(g) /\ ev[g].event = e
            started == [IdleHandler EXCEPT !.event = e, !.redelivery = again]
        IN \/ \E p \in downloadJSON(ipfs, sha256ToIPFSHash(e.assetDefinitionHash)) :
                ev' = [ev EXCEPT ![h] =
                         IF ValidAssetDefinition(p)
                         THEN [started EXCEPT !.pc = "byID", !.assetDefinition = p]
                         ELSE [started EXCEPT !.pc = "failed", !.assetDefinition = p,
                                              !.err = "InvalidContent"]]
           \/ ev' = [ev EXCEPT ![h] =
                       [started EXCEPT !.pc = "failed", !.err = "DownloadFailed"]]
    /\ UNCHANGED <<protocol, registry, collections, ipfs, ledger, req, confirmWrites>>

\* the conflict raised only for another transaction than the stored one
EventRetrieveByID_SameTxPasses(h) ==
    /\ ev[h].pc = "byID"
    /\ LET dbAssetDefinitionByID ==
               retrieveAssetDefinitionByID(registry,
                                           ev[h].assetDefinition.assetDefinitionID)
       IN IF dbAssetDefinitionByID.stored
          THEN IF /\ dbAssetDefinitionByID.transactionHash # Unset
                  /\ dbAssetDefinitionByID.transactionHash # ev[h].event.transactionHash
               THEN ev' = [ev EXCEPT ![h].pc = "failed", ![h].err = "IDConflict"]
               ELSE Finalize(h)
          ELSE ev' = [ev EXCEPT ![h].pc = "byName"]
    /\ UNCHANGED <<protocol, registry, collections, ipfs, ledger, req, confirmWrites>>

\* the conflict logged and not thrown
EventRetrieveByID_NoThrow(h) ==
    /\ ev[h].pc = "byID"
    /\ LET dbAssetDefinitionByID ==
               retrieveAssetDefinitionByID(registry,
                                           ev[h].assetDefinition.assetDefinitionID)
       IN IF dbAssetDefinitionByID.stored
          THEN Finalize(h)
          ELSE ev' = [ev EXCEPT ![h].pc = "byName"]
    /\ UNCHANGED <<protocol, registry, collections, ipfs, ledger, req, confirmWrites>>

\* lines 110-115: the lookup by identifier
EventRetrieveByID(h) ==
    /\ ev[h].pc = "byID"
    /\ LET dbAssetDefinitionByID ==
               retrieveAssetDefinitionByID(registry,
                                           ev[h].assetDefinition.assetDefinitionID)
       IN IF dbAssetDefinitionByID.stored
          THEN IF dbAssetDefinitionByID.transactionHash # Unset
               THEN ev' = [ev EXCEPT ![h].pc = "failed", ![h].err = "IDConflict"]
               ELSE Finalize(h)
          ELSE ev' = [ev EXCEPT ![h].pc = "byName"]
    /\ UNCHANGED <<protocol, registry, collections, ipfs, ledger, req, confirmWrites>>

\* lines 116-124: the lookup by name
EventRetrieveByName(h) ==
    /\ ev[h].pc = "byName"
    /\ LET found == retrieveAssetDefinitionByName(registry, ev[h].assetDefinition.name)
       IN IF found = {}
          THEN Finalize(h)
          ELSE \E i \in found :
                 IF registry[i].transactionHash # Unset
                 THEN ev' = [ev EXCEPT ![h].pc = "failed", ![h].err = "NameConflict"]
                 ELSE ev' = [ev EXCEPT ![h].pc = "markConflict"]
    /\ UNCHANGED <<protocol, registry, collections, ipfs, ledger, req, confirmWrites>>

\* line 121: database.markAssetDefinitionAsConflict, awaited, then lines 126-140
EventMarkConflict(h) ==
    /\ ev[h].pc = "markConflict"
    /\ \/ /\ registry' = markAssetDefinitionAsConflict(registry,
                 ev[h].assetDefinition.assetDefinitionID, ev[h].event.timestamp)
          /\ Finalize(h)
       \/ /\ ev' = [ev EXCEPT ![h].pc = "failed", ![h].err = "DatabaseError"]
          /\ UNCHANGED registry
    /\ UNCHANGED <<protocol, collections, ipfs, ledger, req, confirmWrites>>

\* lines 140-142: database.createCollection, awaited, then the return
EventCreateCollection(h) ==
    /\ ev[h].pc = "createCollection"
    /\ \/ /\ collections' = createCollection(collections,
                 ev[h].assetDefinition.assetDefinitionID,
                 CollectionIndexes(ev[h].assetDefinition))
          /\ ev' = [ev EXCEPT ![h].pc = "done"]
       \/ /\ ev' = [ev EXCEPT ![h].pc = "failed", ![h].err = "DatabaseError"]
          /\ UNCHANGED collections
    /\ UNCHANGED <<protocol, registry, ipfs, ledger, req, confirmWrites>>

\* lines 126-133: the upsert issued by a handler reaches the registry
UpsertApplied(h) ==
    /\ ev[h].upsert = "issued"
    /\ ev' = [ev EXCEPT ![h].upsert = "applied"]
    /\ registry' = upsertAssetDefinition(registry,
            ev[h].assetDefinition.assetDefinitionID,
            EventRecord(ev[h].assetDefinition, ev[h].event))
    /\ confirmWrites' =
            [confirmWrites EXCEPT ![ev[h].assetDefinition.assetDefinitionID] = @ + 1]
    /\ UNCHANGED <<protocol, collections, ipfs, ledger, req>>

\* lines 126-133: the upsert fails; nothing awaits it, nothing sees the error
UpsertRejected(h) ==
    /\ ev[h].upsert = "issued"
    /\ ev' = [ev EXCEPT ![h].upsert = "rejected"]
    /\ UNCHANGED <<protocol, registry, collections, ipfs, ledger, req, confirmWrites>>

(* ------------------------------ environment ---------------------------- *)
RemoteCount == Cardinality({e \in ledger : e.author = RemoteAuthor})
\* another party uploads a definition and submits its digest to the ledger;
\* it may carry an identifier it has seen, or its own
RemoteSubmit(p) ==
    /\ RemoteCount < MaxRemote
    /\ p.assetDefinitionID = ForeignId \/ p.assetDefinitionID < uuidV4
    /\ ipfs' = ipfs \cup {p}
    /\ ledger' = ledger \cup {Mine(ipfsHashToSha256(uploadString(p)), RemoteAuthor,
                                 MaxRequests + 1 + RemoteCount)}
    /\ UNCHANGED <<protocol, registry, collections, req, ev, confirmWrites>>

\* what other parties upload: definitions, and one blob that is none
RemotePayloads ==
    [assetDefinitionID : Ids, name : Names, indexes : {Absent}, wellFormed : {TRUE}]
    \cup {[assetDefinitionID |-> ForeignId, name |-> NameSeq[1], indexes |-> Absent,
           wellFormed |-> FALSE]}

Next ==
    \/ \E r \in Requests, c \in PlainCalls : CreateRequestValidate(r, c)
    \/ \E r \in Requests : CreateRequestUpload(r)
    \/ \E r \in Requests : CreateRequestSubmit(r)
    \/ \E r \in Requests : CreateRequestPersist(r)
    \/ \E h \in Handlers : EventDownload(h)
    \/ \E h \in Handlers : EventRetrieveByID(h)
    \/ \E h \in Handlers : EventRetrieveByName(h)
    \/ \E h \in Handlers : EventMarkConflict(h)
    \/ \E h \in Handlers : EventCreateCollection(h)
    \/ \E h \in Handlers : UpsertApplied(h)
    \/ \E h \in Handlers : UpsertRejected(h)
    \/ \E p \in RemotePayloads : RemoteSubmit(p)

Spec == Init /\ [][Next]_vars

\* on either kind of ledger, any call a client can make, made after plain
\* calls, with one event delivery and the definitions of other parties
\* under identifiers of their own
ForeignPayloads ==
    {p \in RemotePayloads : p.assetDefinitionID = ForeignId /\ p.wellFormed}
EarlierCall(r, c) == r < MaxRequests /\ CreateRequestValidate(r, c)
LastCall(c) == CreateRequestValidate(MaxRequests, c)
OneDelivery(h) == h = 1 /\ EventDownload(h)
NextRequests ==
    \/ \E r \in Requests, c \in PlainCalls : EarlierCall(r, c)
    \/ \E c \in Calls : LastCall(c)
    \/ \E r \in Requests : CreateRequestUpload(r)
    \/ \E r \in Requests : CreateRequestSubmit(r)
    \/ \E r \in Requests : CreateRequestPersist(r)
    \/ \E h \in Handlers : OneDelivery(h)
    \/ \E h \in Handlers : EventRetrieveByID(h)
    \/ \E h \in Handlers : EventRetrieveByName(h)
    \/ \E h \in Handlers : EventMarkConflict(h)
    \/ \E h \in Handlers : EventCreateCollection(h)
    \/ \E h \in Handlers : UpsertApplied(h)
    \/ \E h \in Handlers : UpsertRejected(h)
    \/ \E p \in ForeignPayloads : RemoteSubmit(p)

SpecRequests == InitAnyProtocol /\ [][NextRequests]_vars

\* the events delivered one at a time, each when the requests made have
\* returned and the events delivered before have been handled to the end
SerialDelivery(h) == Quiet /\ EventDownload(h)
NextSerial ==
    \/ \E r \in Requests, c \in PlainCalls : CreateRequestValidate(r, c)
    \/ \E r \in Requests : CreateRequestUpload(r)
    \/ \E r \in Requests : CreateRequestSubmit(r)
    \/ \E r \in Requests : CreateRequestPersist(r)
    \/ \E h \in Handlers : SerialDelivery(h)
    \/ \E h \in Handlers : EventRetrieveByID(h)
    \/ \E h \in Handlers : EventRetrieveByName(h)
    \/ \E h \in Handlers : EventMarkConflict(h)
    \/ \E h \in Handlers : EventCreateCollection(h)
    \/ \E h \in Handlers : UpsertApplied(h)
    \/ \E h \in Handlers : UpsertRejected(h)
    \/ \E p \in RemotePayloads : RemoteSubmit(p)

SpecSerial == Init /\ [][NextSerial]_vars

(* ============================ properties =============================== *)
\* the handler ran to its end without a collaborator failing
RanClean(h) ==
    /\ ev[h].pc \in {"done", "failed"} /\ ev[h].upsert # "issued"
    /\ ev[h].err \notin {"DownloadFailed", "DatabaseError"}
    /\ ev[h].upsert # "rejected"
\* the event the ledger mined for request r
EventOf(r) == {e \in ledger : e.transactionHash = r /\ e.author = LocalAuthor}

\* C1: in every reachable state, for every name, at most one stored record
\* with that name is Confirmed (has its transactionHash set).
C1_OneConfirmedPerName ==
    \A i, j \in Ids :
        (IsConfirmed(registry[i]) /\ IsConfirmed(registry[j])
            /\ registry[i].name = registry[j].name) => i = j

\* C2: when two requests with the same name have both succeeded before either
\* was confirmed, and their two events have then been handled one after the
\* other, the record of the event handled first is Confirmed and not
\* Conflicted, and the record of the event handled second is Conflicted and
\* not Confirmed.
C2_FirstConfirmedSecondConflicted ==
    \A r, q \in Requests : \A h, g \in Handlers :
        (/\ r # q /\ h < g
         /\ req[r].pc = "done" /\ req[q].pc = "done"
         /\ req[r].name = req[q].name
         /\ ev[h].event \in EventOf(r) /\ ev[g].event \in EventOf(q)
         /\ RanClean(h) /\ RanClean(g)
         /\ ~ev[h].redelivery /\ ~ev[g].redelivery)
        => /\ IsConfirmed(registry[req[r].assetDefinitionID])
           /\ ~IsConflicted(registry[req[r].assetDefinitionID])
           /\ IsConflicted(registry[req[q].assetDefinitionID])
           /\ ~IsConfirmed(registry[req[q].assetDefinitionID])

HandlerId(h) == ev[h].assetDefinition.assetDefinitionID

\* C3: a delivery of an event that had already been handled to the end is a
\* no-op: no step of it changes the registry or the collections, it issues no
\* write, and the record of its definition stays Confirmed.
C3_RedeliveryNoOp ==
    [][\A h \in Handlers :
        (ev'[h] # ev[h] /\ ev'[h].redelivery) =>
            /\ registry' = registry
            /\ collections' = collections
            /\ ev'[h].upsert = "none"
            /\ ev'[h].assetDefinition # NoPayload =>
                 IsConfirmed(registry'[ev'[h].assetDefinition.assetDefinitionID])]_vars

\* a second delivery has been handled to its end
C3_Witness ==
    \E h \in Handlers :
        ev[h].redelivery /\ ev[h].pc = "failed" /\ ev[h].err = "IDConflict"

\* C4: for every identifier, the write that sets transactionHash is applied
\* at most once, whatever the interleaving of the event handlers, and no step
\* of the request handler sets a transactionHash.
C4_ConfirmedOnce ==
    /\ [](\A i \in Ids : confirmWrites[i] <= 1)
    /\ [][\A r \in Requests : req'[r] # req[r] =>
            \A i \in Ids : registry'[i].transactionHash = registry[i].transactionHash]_vars

\* C5: the step of a handler that finds the record of its identifier already
\* Confirmed fails with the identifier conflict, changes neither the registry
\* nor the collections and issues no write; a handler that failed so has
\* created no collection and written nothing.
C5_IDConflictLeavesRecord ==
    /\ [](\A h \in Handlers :
            ev[h].err = "IDConflict" => ev[h].pc = "failed" /\ ev[h].upsert = "none")
    /\ [][\A h \in Handlers :
            (ev[h].pc = "byID" /\ ev'[h] # ev[h] /\ IsConfirmed(registry[HandlerId(h)])) =>
                /\ ev'[h].pc = "failed" /\ ev'[h].err = "IDConflict"
                /\ ev'[h].upsert = "none"
                /\ registry' = registry
                /\ collections' = collections]_vars

\* an event with another digest, author and transaction than the one that
\* confirmed the record has met the conflict
C5_Witness ==
    \E h \in Handlers :
        /\ ev[h].err = "IDConflict"
        /\ registry[HandlerId(h)].assetDefinitionHash # ev[h].event.assetDefinitionHash
        /\ registry[HandlerId(h)].author # ev[h].event.author
        /\ registry[HandlerId(h)].transactionHash # ev[h].event.transactionHash

\* C6: a handler whose fetched content is no valid asset definition fails
\* with the invalid-content error in the step that fetched it, which changes
\* neither the registry nor the collections, and it never issues a write.
C6_InvalidContentDropped ==
    /\ [](\A h \in Handlers :
            (ev[h].assetDefinition # NoPayload /\ ~ev[h].assetDefinition.wellFormed) =>
                ev[h].pc = "failed" /\ ev[h].err = "InvalidContent"
                    /\ ev[h].upsert = "none")
    /\ [][\A h \in Handlers :
            (ev'[h] # ev[h] /\ ev'[h].err = "InvalidContent") =>
                registry' = registry /\ collections' = collections]_vars

C6_Witness ==
    \E h \in Handlers : ev[h].err = "InvalidContent" /\ Stored(registry) # {}

\* C7: a request rejected by a precondition is rejected in its first step,
\* which changes neither the content store nor the ledger nor the registry,
\* and it has no identifier and no effect.
C7_RejectedWithoutEffect ==
    /\ [](\A r \in Requests :
            req[r].err \in PreconditionErrors =>
                req[r].pc = "failed" /\ req[r].effects = {}
                    /\ req[r].assetDefinitionID = Unset)
    /\ [][\A r \in Requests :
            (req'[r] # req[r] /\ req'[r].err \in PreconditionErrors) =>
                ipfs' = ipfs /\ ledger' = ledger /\ registry' = registry]_vars

C7_Witness ==
    \E r \in Requests :
        req[r].err = "NameConflict" /\ ipfs # {} /\ ledger # {}

\* C8 as stated: a failed request has had no effect at all.
C8_FailedWithoutAnyEffect ==
    \A r \in Requests : req[r].pc = "failed" => req[r].effects = {}

\* C8 as amended: a failed request has had the effects of the steps that
\* came before the failing one, and it has written no record.
C8_FailedKeepsEarlierEffects ==
    \A r \in Requests :
        req[r].pc = "failed" =>
            /\ req[r].err \in PreconditionErrors \cup {"UploadFailed"} =>
                    req[r].effects = {} /\ EventOf(r) = {}
            /\ req[r].err = "SubmitFailed" =>
                    /\ req[r].effects = {"upload"}
                    /\ RequestPayload(req[r]) \in ipfs
                    /\ EventOf(r) = {}
            /\ req[r].err = "PersistFailed" =>
                    /\ req[r].effects = {"upload", "submit"}
                    /\ RequestPayload(req[r]) \in ipfs
                    /\ EventOf(r) # {}
            /\ req[r].assetDefinitionID # Unset =>
                    registry[req[r].assetDefinitionID].submitted = Unset

C8_Witness ==
    \E r, q \in Requests :
        req[r].err = "PersistFailed" /\ req[q].err = "SubmitFailed"

\* C9: on a ledger with explicit participants, a request that got past the
\* first four checks fails with MissingParticipants when its list is absent
\* or empty, fails with UnknownParticipant when the list names an
\* unregistered address, and otherwise passes; a rejected one persists nothing.
C9_CordaNeedsParticipants ==
    \A r \in Requests :
        (/\ protocol = "corda" /\ req[r].pc # "idle"
         /\ req[r].err \notin {"InvalidDescriptionSchema", "InvalidContentSchema",
                               "InvalidIndexes", "NameConflict"}) =>
            LET ps == req[r].participants
            IN IF ps = Absent \/ ps = <<>>
               THEN req[r].err = "MissingParticipants" /\ req[r].effects = {}
               ELSE IF \E k \in 1..Len(ps) : ps[k] \notin RegisteredMembers
               THEN req[r].err = "UnknownParticipant" /\ req[r].effects = {}
               ELSE req[r].err \notin PreconditionErrors

\* C10: the step that persists the record of a request leaves it Pending
\* with the digest of the uploaded content; an upsert applied for an event
\* with that digest while the record is Pending leaves it Confirmed with the
\* event's transaction; and every Confirmed record carries the digest of the
\* event whose transaction it carries.
C10_PendingThenConfirmedDigest ==
    /\ [](\A i \in Ids :
            IsConfirmed(registry[i]) =>
                \E e \in ledger :
                    /\ e.transactionHash = registry[i].transactionHash
                    /\ e.assetDefinitionHash = registry[i].assetDefinitionHash)
    /\ [][/\ \A r \in Requests :
               (req[r].pc = "persist" /\ req'[r].pc = "done") =>
                    /\ IsPending(registry'[req[r].assetDefinitionID])
                    /\ registry'[req[r].assetDefinitionID].assetDefinitionHash =
                         ipfsHashToSha256(uploadString(RequestPayload(req[r])))
          /\ \A h \in Handlers :
               (/\ ev[h].upsert = "issued" /\ ev'[h].upsert = "applied"
                /\ IsPending(registry[HandlerId(h)])
                /\ registry[HandlerId(h)].assetDefinitionHash =
                     ev[h].event.assetDefinitionHash) =>
                    /\ IsConfirmed(registry'[HandlerId(h)])
                    /\ registry'[HandlerId(h)].transactionHash =
                         ev[h].event.transactionHash]_vars

\* the stored records that carry the name of the definition handler h fetched
NameRecords(h) == retrieveAssetDefinitionByName(registry, ev[h].assetDefinition.name)
\* the registry has no record of the identifier of handler h
IncomingUnknown(h) == ~retrieveAssetDefinitionByID(registry, HandlerId(h)).stored

\* C11: a handler whose identifier has no record and whose name belongs to
\* Confirmed records only does not finalize in its lookup by name and leaves
\* those records unchanged; and when it has ended on that name conflict, its
\* identifier is marked Conflicted with the event's timestamp, has no
\* transaction reference and has no instance collection.
C11_ConfirmedNameMarksIncoming ==
    /\ [][\A h \in Handlers :
            (/\ ev[h].pc = "byName" /\ ev'[h] # ev[h]
             /\ IncomingUnknown(h) /\ NameRecords(h) # {}
             /\ \A i \in NameRecords(h) : IsConfirmed(registry[i])) =>
                /\ ev'[h].upsert = "none"
                /\ \A i \in NameRecords(h) : registry'[i] = registry[i]]_vars
    /\ [](\A h \in Handlers :
            (ev[h].pc = "failed" /\ ev[h].err = "NameConflict") =>
                /\ IsConflicted(registry[HandlerId(h)])
                /\ registry[HandlerId(h)].timestamp = ev[h].event.timestamp
                /\ registry[HandlerId(h)].transactionHash = Unset
                /\ ~\E c \in collections : c.name = HandlerId(h))

\* C12: no step of a handler taken while the registry has no record of its
\* identifier and only Pending records of its name fails or marks the
\* identifier Conflicted, and every such step leaves those Pending records
\* exactly as they were.
C12_PendingNameFinalizesIncoming ==
    [][\A h \in Handlers :
        (/\ ev[h].pc \in {"byName", "markConflict"} /\ ev'[h] # ev[h]
         /\ IncomingUnknown(h) /\ NameRecords(h) # {}
         /\ \A i \in NameRecords(h) : IsPending(registry[i])) =>
            /\ ev'[h].err \notin {"NameConflict", "IDConflict"}
            /\ ~IsConflicted(registry'[HandlerId(h)])
            /\ \A i \in NameRecords(h) : registry'[i] = registry[i]]_vars

\* C13: in every state in which no event handler is under way, a record is
\* Confirmed if and only if its instance collection exists.
C13_ConfirmedIffCollection ==
    (\A g \in Handlers : Settled(g)) =>
        \A i \in Ids :
            IsConfirmed(registry[i]) <=> (\E c \in collections : c.name = i)

\* C14: no record is both marked Conflicted and has a transaction reference,
\* and a record marked Conflicted stays marked and never gets one.
C14_ConflictedTerminal ==
    /\ [](\A i \in Ids :
            ~(IsConflicted(registry[i]) /\ registry[i].transactionHash # Unset))
    /\ [][\A i \in Ids :
            IsConflicted(registry[i]) =>
                IsConflicted(registry'[i]) /\ registry'[i].transactionHash = Unset]_vars

\* C15: once a record has a transaction reference, every step of a request
\* or of an event handler leaves the record Confirmed with that same
\* transaction reference.
C15_ConfirmedTerminal ==
    [][\A i \in Ids :
        IsConfirmed(registry[i]) =>
            /\ IsConfirmed(registry'[i])
            /\ registry'[i].transactionHash = registry[i].transactionHash]_vars

\* the first three checks of call q pass (lines 42-50)
PassesShapeChecks(q) ==
    /\ q.descriptionSchema # "invalid"
    /\ q.contentSchema # "invalid"
    /\ q.indexes = Absent \/ IndexSchemaOk(q.indexes)

\* C16: a request that reaches the name check while the registry stores a
\* record with its name, whatever the state of that record, is rejected with
\* NameConflict in that step, which leaves the registry unchanged; one whose
\* name no stored record carries is not rejected with NameConflict; and a
\* request rejected so has no identifier and has written nothing.
C16_StoredNameRejected ==
    /\ [][\A r \in Requests :
            (req[r].pc = "idle" /\ req'[r].pc # "idle" /\ PassesShapeChecks(req'[r])) =>
                IF \E i \in Ids : registry[i].stored /\ registry[i].name = req'[r].name
                THEN /\ req'[r].pc = "failed" /\ req'[r].err = "NameConflict"
                     /\ registry' = registry
                ELSE req'[r].err # "NameConflict"]_vars
    /\ [](\A r \in Requests :
            req[r].err = "NameConflict" =>
                /\ req[r].pc = "failed" /\ req[r].effects = {}
                /\ req[r].assetDefinitionID = Unset)

\* a request has been rejected for a name that a record marked Conflicted
\* and a Pending record carry
C16_Witness ==
    \E r \in Requests :
        /\ req[r].err = "NameConflict"
        /\ \E i, j \in Ids :
            /\ IsConflicted(registry[i]) /\ registry[i].name = req[r].name
            /\ IsPending(registry[j]) /\ registry[j].name = req[r].name

\* C17: the error of a request is that of the earliest check it violates, in
\* the order description schema, content schema, index specs, name
\* uniqueness, participants: a participants error, or none, only when the
\* first four checks pass.
C17_FirstFailureWins ==
    [][\A r \in Requests :
        (req[r].pc = "idle" /\ req'[r].pc # "idle") =>
            LET q == req'[r]
                taken == \E i \in Ids : registry[i].stored /\ registry[i].name = q.name
            IN IF q.descriptionSchema = "invalid"
                    THEN q.err = "InvalidDescriptionSchema"
               ELSE IF q.contentSchema = "invalid"
                    THEN q.err = "InvalidContentSchema"
               ELSE IF q.indexes = <<"bad-shape">>
                    THEN q.err = "InvalidIndexes"
               ELSE IF taken
                    THEN q.err = "NameConflict"
               ELSE /\ q.err \in {"none", "MissingParticipants", "UnknownParticipant"}
                    /\ protocol # "corda" => q.err = "none"
                    /\ (protocol = "corda" /\ q.participants = Absent) =>
                            q.err = "MissingParticipants"]_vars

\* a request with a taken name and no participants, on a ledger that needs
\* them, has failed on the name
C17_Witness ==
    /\ protocol = "corda"
    /\ \E r \in Requests :
        /\ req[r].err = "NameConflict"
        /\ req[r].participants = Absent
        /\ req[r].indexes = Absent

\* C18: a handler that looks up its name while the registry has no record of
\* its identifier and none of its name goes on to finalize without marking
\* anything; the upsert it issued, applied while the identifier still has no
\* record, creates a Confirmed record that is not marked Conflicted, was never
\* submitted here, and carries the payload's name and the event's author,
\* digest, timestamp, block and transaction; and the provisioning step that
\* succeeds leaves the instance collection of the identifier in place.
C18_UnknownDefinitionConfirmed ==
    [][\A h \in Handlers :
        /\ (/\ ev[h].pc = "byName" /\ ev'[h] # ev[h]
            /\ IncomingUnknown(h) /\ NameRecords(h) = {}) =>
                /\ ev'[h].pc = "createCollection" /\ ev'[h].upsert = "issued"
                /\ registry' = registry
        /\ (/\ ev[h].upsert = "issued" /\ ev'[h].upsert = "applied"
            /\ IncomingUnknown(h)) =>
                LET rec == registry'[HandlerId(h)]
                IN /\ IsConfirmed(rec) /\ ~IsConflicted(rec)
                   /\ rec.submitted = Unset /\ rec.receipt = Unset
                   /\ rec.name = ev[h].assetDefinition.name
                   /\ rec.author = ev[h].event.author
                   /\ rec.assetDefinitionHash = ev[h].event.assetDefinitionHash
                   /\ rec.timestamp = ev[h].event.timestamp
                   /\ rec.blockNumber = ev[h].event.blockNumber
                   /\ rec.transactionHash = ev[h].event.transactionHash
        /\ (ev[h].pc = "createCollection" /\ ev'[h].pc = "done") =>
                \E c \in collections' : c.name = HandlerId(h)]_vars

\* the event of another party's definition, whose identifier and name the
\* registry did not hold, has been handled to the end beside a local record
C18_Witness ==
    \E h \in Handlers :
        /\ Finished(h) /\ HandlerId(h) = ForeignId
        /\ ev[h].event.author = RemoteAuthor
        /\ confirmWrites[ForeignId] = 1
        /\ IsConfirmed(registry[ForeignId]) /\ ~IsConflicted(registry[ForeignId])
        /\ registry[ForeignId].submitted = Unset
        /\ registry[ForeignId].blockNumber = ev[h].event.blockNumber
        /\ \E c \in collections : c.name = ForeignId
        /\ \A i \in Ids \ {ForeignId} : registry[i].name # registry[ForeignId].name
        /\ \E i \in Ids \ {ForeignId} : IsPending(registry[i])

\* C19: the step that persists the record of a request leaves it with the
\* handle the gateway returned as receipt when the answer was asynchronous
\* (the answer to the r-th submission carries the handle r) and with no
\* receipt when it was synchronous; the step sets no transaction reference,
\* and a record it creates is Pending.
C19_ReceiptIffAsynchronous ==
    [][\A r \in Requests :
        (req[r].pc = "persist" /\ req'[r].pc = "done") =>
            LET id == req[r].assetDefinitionID
            IN /\ registry'[id].receipt = (IF req[r].sync THEN Unset ELSE r)
               /\ registry'[id].receipt # Unset <=> ~req[r].sync
               /\ registry'[id].transactionHash = registry[id].transactionHash
               /\ ~registry[id].stored => IsPending(registry'[id])]_vars

\* one request answered synchronously and one answered asynchronously have
\* both returned, and their records are Pending
C19_Witness ==
    \E r, q \in Requests :
        /\ req[r].pc = "done" /\ req[r].sync
        /\ IsPending(registry[req[r].assetDefinitionID])
        /\ registry[req[r].assetDefinitionID].receipt = Unset
        /\ req[q].pc = "done" /\ ~req[q].sync
        /\ IsPending(registry[req[q].assetDefinitionID])
        /\ registry[req[q].assetDefinitionID].receipt = q

\* C20: the provisioning step of a handler adds, when the identifier has no
\* collection, the collection named after the identifier whose indexes are
\* the unique index on assetInstanceID followed by the indexes the definition
\* declares, if any; when the identifier has a collection, it leaves the
\* collections and their indexes as they are; and no two collections share
\* a name.
C20_CollectionIndexes ==
    /\ [][\A h \in Handlers :
            (ev[h].pc = "createCollection" /\ ev'[h].pc = "done") =>
                LET declared == ev[h].assetDefinition.indexes
                    ixs == IF declared = Absent THEN <<"assetInstanceID">>
                           ELSE <<"assetInstanceID">> \o declared
                IN IF \E c \in collections : c.name = HandlerId(h)
                   THEN collections' = collections
                   ELSE collections' =
                            collections \cup {[name |-> HandlerId(h), indexes |-> ixs]}]_vars
    /\ [](\A c, d \in collections : c.name = d.name => c = d)

\* two handlers have provisioned the collection of one identifier, for
\* definitions that declare different indexes
C20_Witness ==
    \E h, g \in Handlers :
        /\ h # g /\ ev[h].pc = "done" /\ ev[g].pc = "done"
        /\ HandlerId(h) = HandlerId(g)
        /\ ev[h].assetDefinition.indexes = <<"owner">>
        /\ ev[g].assetDefinition.indexes = Absent
        /\ \E c \in collections : c.name = HandlerId(h)

====
